---- MODULE Spec2Model ----
(***************************************************************************)
(* Model of ccjson_to_bc.py: the flag filter filter_flags_for_analysis     *)
(* (a pure function over token sequences) and the replay loop              *)
(* compile_directly / main over a compilation database.                    *)
(*                                                                         *)
(* Tokens, commands and paths are strings; Python's 0-based list index i   *)
(* is kept, and At(args, i) reads args[i].                                 *)
(***************************************************************************)
EXTENDS Integers, Sequences, FiniteSets, TLC

VARIABLES
    \* ---- flag filter (SpecFlags) ----
    args,        \* the argument vector handed to filter_flags_for_analysis
    fpc,         \* "ready" | "filtered" | "refiltered"
    result,      \* filter_flags_for_analysis(args)
    result2,     \* filter_flags_for_analysis([CLANG] + result)
    \* ---- replay loop (Spec) ----
    entries,     \* the parsed compilation database
    idx,         \* 1-based position of the next entry of the for loop
    pc,          \* "loop" | "done" | "crashed"
    total,
    success,
    failed,
    exitStatus,  \* process exit status, -1 while running
    fs,          \* file system: path -> [exists, mtime]
    dirs,        \* directories created by mkdir
    ran,         \* the subprocess.run calls of this run, in order
    log,         \* per handled entry of this run: what happened to it
    runs,        \* number of runs of the tool started so far
    prev         \* summary of the previous run

flagVars == <<args, fpc, result, result2>>
loopVars == <<entries, idx, pc, total, success, failed, exitStatus, fs, dirs, ran, log, runs, prev>>
vars == <<args, fpc, result, result2, entries, idx, pc, total, success, failed, exitStatus, fs, dirs, ran, log, runs, prev>>

----------------------------------------------------------------------------
(* Configuration (environment variables, at their defaults)                *)

CLANG == "clang"
TARGET == ""
OPTIMIZATION == "-O0"

SANITIZER_FLAGS ==
    { "-fsanitize=kernel-address", "-fsanitize-address-use-after-scope",
      "-fasan-shadow-offset=0xdffffc0000000000", "-fsanitize=address",
      "-fsanitize-coverage=trace-pc", "-fsanitize-coverage=trace-cmp",
      "-fsanitize-coverage=trace-div", "-fsanitize-coverage=trace-gep",
      "-fsanitize-coverage=indirect-calls", "-fsanitize-coverage=trace-pc-guard",
      "-fsanitize=undefined", "-fsanitize=integer", "-fsanitize=nullability" }

PROFILING_FLAGS ==
    { "-fprofile-instr-generate", "-fprofile-instr-use",
      "-fprofile-generate", "-fprofile-use",
      "-fcoverage-mapping", "-fprofile-arcs", "-ftest-coverage" }

SECURITY_FLAGS ==
    { "-fstack-protector", "-fstack-protector-strong", "-fstack-protector-all",
      "-fstack-clash-protection", "-fcf-protection" }

KEEP_PAIR == { "-I", "-isystem", "-idirafter", "-iprefix", "-include", "-imacros" }
DROP_SINGLE == { "-c", "-E", "-pipe", "-MMD", "-MD", "-MP" }
DROP_PAIR == { "-o", "-Wp,", "-MF", "-MT", "-MQ" }
WRAPPER_PREFIXES == { "ccache", "sccache", "distcc", "icecc" }

----------------------------------------------------------------------------
(* String helpers: str.startswith / str.endswith / list membership         *)

StartsWith(a, p) == Len(a) >= Len(p) /\ SubSeq(a, 1, Len(p)) = p

EndsWith(a, s) == Len(a) >= Len(s) /\ SubSeq(a, Len(a) - Len(s) + 1, Len(a)) = s

StartsWithAny(a, ps) == \E p \in ps : StartsWith(a, p)

EndsWithAny(a, ss) == \E s \in ss : EndsWith(a, s)

InList(x, xs) == \E j \in 1..Len(xs) : xs[j] = x

At(xs, i) == xs[i + 1]

----------------------------------------------------------------------------
(* is_flag_to_drop and filter_flags_for_analysis                           *)

prefixes_to_drop ==
    { "-fsanitize", "-fno-sanitize", "-fprofile", "-fcoverage",
      "-fstack-protector", "-fcf-protection", "-fstack-clash" }

is_flag_to_drop(flag) ==
    \/ flag \in SANITIZER_FLAGS
    \/ flag \in PROFILING_FLAGS
    \/ flag \in SECURITY_FLAGS
    \/ StartsWithAny(flag, prefixes_to_drop)

OPT_LEVELS == { "-O0", "-O2", "-O3", "-Os", "-Oz" }

KEEP_PREFIXES ==
    { "-D", "-U", "-I", "-isystem", "-include", "-idirafter", "-iprefix",
      "-nostdinc", "-f", "-m", "-W", "-std=", "-mcmodel=", "-march=", "-mtune=" }

ARCH_PREFIXES == { "-m32", "-m64", "-march", "-mtune", "-mcpu" }

\* One iteration of the while loop at (i, out): the new (i, out).
filter_step(a_args, i, out) ==
    LET a == At(a_args, i) IN
    IF i = 0 /\ (a \in WRAPPER_PREFIXES \/ EndsWithAny(a, {"gcc", "cc", "clang"}))
      THEN [i |-> i + 1, out |-> out]
    ELSE IF a = "-mllvm"
      THEN [i |-> i + 2, out |-> out]
    ELSE IF is_flag_to_drop(a)
      THEN [i |-> i + 1, out |-> out]
    ELSE IF a \in DROP_SINGLE \/ StartsWith(a, "-Wp,")
      THEN [i |-> i + 1, out |-> out]
    ELSE IF a \in DROP_PAIR
      THEN [i |-> i + 2, out |-> out]
    ELSE IF a \in KEEP_PAIR /\ i + 1 < Len(a_args)
      THEN [i |-> i + 2, out |-> out \o <<a, At(a_args, i + 1)>>]
    ELSE IF a \in OPT_LEVELS
      THEN [i |-> i + 1,
            out |-> IF ~InList(OPTIMIZATION, out) THEN Append(out, OPTIMIZATION) ELSE out]
    ELSE IF StartsWith(a, "-g")
      THEN IF a = "-g0"
             THEN [i |-> i + 1, out |-> out]
             ELSE [i |-> i + 1,
                   out |-> IF ~InList("-g", out) THEN Append(out, "-g") ELSE out]
    ELSE IF StartsWithAny(a, KEEP_PREFIXES)
      THEN IF StartsWithAny(a, {"-Wno-", "-Werror"})
             THEN [i |-> i + 1, out |-> out]
             ELSE [i |-> i + 1, out |-> Append(out, a)]
    ELSE IF StartsWithAny(a, ARCH_PREFIXES)
      THEN [i |-> i + 1, out |-> Append(out, a)]
    ELSE [i |-> i + 1, out |-> out]

RECURSIVE filter_scan(_, _, _)
filter_scan(a_args, i, out) ==
    IF i < Len(a_args)
      THEN LET s == filter_step(a_args, i, out) IN filter_scan(a_args, s.i, s.out)
      ELSE out

analysis_flags ==
    << "-Wno-unknown-warning-option",
       "-Wno-unused-command-line-argument",
       "-fno-discard-value-names",
       "-disable-llvm-passes" >>

RECURSIVE append_analysis_flags(_, _)
append_analysis_flags(out, k) ==
    IF k > Len(analysis_flags) THEN out
    ELSE append_analysis_flags(
           IF ~InList(analysis_flags[k], out) THEN Append(out, analysis_flags[k]) ELSE out,
           k + 1)

filter_flags_for_analysis(a_args) ==
    append_analysis_flags(filter_scan(a_args, 1, <<>>), 1)

----------------------------------------------------------------------------
(* Specification of the flag filter: inputs drawn from a token vocabulary  *)

MaxFlags == 3

FlagTokens ==
    { "-mllvm", "-fsanitize=address", "-c", "-o", "-I", "-imacros",
      "-O0", "-O1", "-O2", "-g", "-g0", "-D__KERNEL__", "-Werror", "x.c" }

RECURSIVE SeqsUpTo(_, _)
SeqsUpTo(S, n) ==
    IF n = 0 THEN { <<>> }
    ELSE LET shorter == SeqsUpTo(S, n - 1)
         IN shorter \cup { Append(s, x) : s \in { t \in shorter : Len(t) = n - 1 }, x \in S }

LoopIdle ==
    /\ entries = <<>>
    /\ idx = 1
    /\ pc = "idle"
    /\ total = 0 /\ success = 0 /\ failed = 0
    /\ exitStatus = -1
    /\ fs = <<>>
    /\ dirs = {}
    /\ ran = <<>>
    /\ log = <<>>
    /\ runs = 0
    /\ prev = <<>>

InitFlags ==
    /\ args \in { <<"gcc">> \o s : s \in SeqsUpTo(FlagTokens, MaxFlags) }
    /\ fpc = "ready"
    /\ result = <<>>
    /\ result2 = <<>>
    /\ LoopIdle

FilterCall ==
    /\ fpc = "ready"
    /\ result' = filter_flags_for_analysis(args)
    /\ fpc' = "filtered"
    /\ UNCHANGED <<args, result2>>
    /\ UNCHANGED loopVars

FilterAgain ==
    /\ fpc = "filtered"
    /\ result2' = filter_flags_for_analysis(<<CLANG>> \o result)
    /\ fpc' = "refiltered"
    /\ UNCHANGED <<args, result>>
    /\ UNCHANGED loopVars

NextFlags == FilterCall \/ FilterAgain

SpecFlags == InitFlags /\ [][NextFlags]_vars

----------------------------------------------------------------------------
(* Replay loop helpers: shlex.split, pathlib, the classifier               *)

\* shlex.split(s, posix=True) restricted to blanks and double quotes: the
\* scan at character k with the finished tokens toks, the token being read
\* cur, and whether a token / a quoted part is open.  An unterminated quote
\* raises ValueError (ok = FALSE).
RECURSIVE shlex_scan(_, _, _, _, _, _)
shlex_scan(s, k, toks, cur, inTok, inQuote) ==
    IF k > Len(s)
      THEN IF inQuote THEN [ok |-> FALSE, toks |-> <<>>]
           ELSE [ok |-> TRUE, toks |-> IF inTok THEN Append(toks, cur) ELSE toks]
    ELSE LET c == SubSeq(s, k, k) IN
      IF inQuote
        THEN IF c = "\"" THEN shlex_scan(s, k + 1, toks, cur, TRUE, FALSE)
             ELSE shlex_scan(s, k + 1, toks, cur \o c, TRUE, TRUE)
      ELSE IF c = " "
        THEN IF inTok THEN shlex_scan(s, k + 1, Append(toks, cur), "", FALSE, FALSE)
             ELSE shlex_scan(s, k + 1, toks, cur, FALSE, FALSE)
      ELSE IF c = "\"" THEN shlex_scan(s, k + 1, toks, cur, TRUE, TRUE)
      ELSE shlex_scan(s, k + 1, toks, cur \o c, TRUE, FALSE)

shlex_split(s) == shlex_scan(s, 1, <<>>, "", FALSE, FALSE)

\* norm_args: the argument list when the entry has a non-empty one, else the
\* tokenized command string ("" when the entry has none).
norm_args(entry) ==
    IF entry.arguments # <<>> THEN [ok |-> TRUE, toks |-> entry.arguments]
    ELSE shlex_split(entry.command)

is_c_compile(a_args) ==
    /\ InList("-c", a_args)
    /\ \E j \in 1..Len(a_args) : EndsWith(a_args[j], ".c")
    /\ ~InList("-E", a_args)

\* pick_src taking the first source token instead of the last.
pick_src_first(a_args) ==
    LET srcs == { j \in 1..Len(a_args) : EndsWith(a_args[j], ".c") }
    IN IF srcs = {} THEN "" ELSE a_args[CHOOSE j \in srcs : \A h \in srcs : j <= h]

\* pick_src: the last token ending in .c; "" stands for None.
pick_src(a_args) ==
    LET srcs == { j \in 1..Len(a_args) : EndsWith(a_args[j], ".c") }
    IN IF srcs = {} THEN "" ELSE a_args[CHOOSE j \in srcs : \A h \in srcs : h <= j]

LastIndexOf(s, ch) ==
    LET hits == { j \in 1..Len(s) : SubSeq(s, j, j) = ch }
    IN IF hits = {} THEN 0 ELSE CHOOSE j \in hits : \A h \in hits : h <= j

is_absolute(p) == StartsWith(p, "/")

\* Path.with_suffix: the suffix of the final component replaced (or added).
with_suffix(p, suffix) ==
    LET slash == LastIndexOf(p, "/")
        dot == LastIndexOf(p, ".")
    IN IF dot > slash + 1 THEN SubSeq(p, 1, dot - 1) \o suffix ELSE p \o suffix

\* cwd / p
joinpath(cwd, p) == IF is_absolute(p) THEN p ELSE cwd \o "/" \o p

parent(p) ==
    LET slash == LastIndexOf(p, "/")
    IN IF slash = 0 THEN "." ELSE IF slash = 1 THEN "/" ELSE SubSeq(p, 1, slash - 1)

\* The conditions under which the for loop does not `continue` before total += 1.
passes_classification(a_args) ==
    /\ a_args # <<>>
    /\ is_c_compile(a_args)
    /\ InList("-D__KERNEL__", a_args)
    /\ pick_src(a_args) # ""

bc_path_of(entry, src) ==
    IF is_absolute(src) THEN with_suffix(src, ".bc")
    ELSE joinpath(entry.directory, with_suffix(src, ".bc"))

src_path_of(entry, src) ==
    IF ~is_absolute(src) THEN joinpath(entry.directory, src) ELSE src

build_cmd(entry, src) ==
    <<CLANG>> \o (IF TARGET # "" THEN << "--target=" \o TARGET >> ELSE <<>>)
      \o << "-emit-llvm", "-c", src, "-o", bc_path_of(entry, src) >>
      \o filter_flags_for_analysis(norm_args(entry).toks)

path_exists(p) == p \in DOMAIN fs /\ fs[p].exists

----------------------------------------------------------------------------
(* Specification of the replay loop                                        *)

MaxEntries == 3
MaxRuns == 2

\* Database records: an argument list or a command string, and a directory.
EntryTemplates ==
    { [arguments |-> << "clang", "-D__KERNEL__", "-fsanitize=address", "-O2", "-g",
                        "-c", "a.c", "-o", "a.o" >>,
       command |-> "", directory |-> "/k"],
      [arguments |-> <<>>,
       command |-> "gcc -D__KERNEL__ -c \"/s/b.c\"", directory |-> "/k"],
      [arguments |-> <<>>,
       command |-> "gcc -D__KERNEL__ -c \"a.c", directory |-> "/k"],
      [arguments |-> <<>>, command |-> "", directory |-> "/k"],
      [arguments |-> << "clang", "-c", "a.c" >>, command |-> "", directory |-> "/k"],
      [arguments |-> << "clang", "-D__KERNEL__", "-c", "/s/b.c", "a.c" >>,
       command |-> "", directory |-> "/k"] }

SourceFiles == { "/k/a.c", "/s/b.c" }
ArtifactFiles == { "/k/a.bc", "/s/b.bc" }

NoFile == [exists |-> FALSE, mtime |-> 0]

\* Before the first run no artifact exists; each source is absent or present
\* with mtime 1.  A successful compile of run n writes its artifact with
\* mtime n + 1, so from the second run on artifacts newer than their sources
\* exist.
InitialFileSystems ==
    { f \in [SourceFiles \cup ArtifactFiles -> { NoFile, [exists |-> TRUE, mtime |-> 1] }] :
        \A p \in ArtifactFiles : f[p] = NoFile }

\* What subprocess.run(cmd, timeout=60) can do: exit status 0, a non-zero
\* exit status, TimeoutExpired, any other exception.
RunOutcomes == { "success", "compile_failed", "timeout", "exception" }

Init ==
    /\ args = <<>> /\ fpc = "idle" /\ result = <<>> /\ result2 = <<>>
    /\ entries \in SeqsUpTo(EntryTemplates, MaxEntries)
    /\ idx = 1
    /\ pc = "loop"
    /\ total = 0 /\ success = 0 /\ failed = 0
    /\ exitStatus = -1
    /\ fs \in InitialFileSystems
    /\ dirs = {}
    /\ ran = <<>>
    /\ log = <<>>
    /\ runs = 1
    /\ prev = [success |-> 0, failed |-> 0, invocations |-> 0]

InLoop == pc = "loop" /\ idx <= Len(entries)

\* The locals of one iteration of the for loop, up to the first use of the
\* file system: the normalized args, whether the entry gets past the three
\* `continue`s, src, src_path, bc_path and the command line.
plan_of(entry) ==
    LET a == norm_args(entry)
        passes == a.ok /\ passes_classification(a.toks)
        src == IF passes THEN pick_src(a.toks) ELSE ""
    IN [ok |-> a.ok,
        passes |-> passes,
        src |-> src,
        src_path |-> IF passes THEN src_path_of(entry, src) ELSE "",
        bc_path |-> IF passes THEN bc_path_of(entry, src) ELSE "",
        cmd |-> IF passes THEN build_cmd(entry, src) ELSE <<>>]

\* plan_of, tabulated over the records a database can hold.
Plans == [e \in EntryTemplates |-> plan_of(e)]

Cur == Plans[entries[idx]]

\* The artifact of a planned entry exists and is at least as new as its source.
artifact_fresh(plan) ==
    /\ plan.passes
    /\ path_exists(plan.bc_path)
    /\ path_exists(plan.src_path)
    /\ fs[plan.bc_path].mtime >= fs[plan.src_path].mtime

Logged(outcome) ==
    Append(log, [outcome |-> outcome, fresh |-> artifact_fresh(Cur)])

\* norm_args raises (shlex.split: "No closing quotation"); nothing in
\* compile_directly or main catches it, the interpreter exits with status 1.
TokenizeError ==
    /\ InLoop
    /\ ~Cur.ok
    /\ pc' = "crashed"
    /\ exitStatus' = 1
    /\ log' = Logged("tokenize_error")
    /\ UNCHANGED <<entries, idx, total, success, failed, fs, dirs, ran, runs, prev>>
    /\ UNCHANGED flagVars

\* One of the three `continue`s before total += 1.
SkipEntry ==
    /\ InLoop
    /\ Cur.ok
    /\ ~Cur.passes
    /\ idx' = idx + 1
    /\ log' = Logged("skipped")
    /\ UNCHANGED <<entries, pc, total, success, failed, exitStatus, fs, dirs, ran, runs, prev>>
    /\ UNCHANGED flagVars

\* total += 1, then the source does not exist: failed += 1 and `continue`.
MissingSource ==
    /\ InLoop
    /\ Cur.passes
    /\ ~path_exists(Cur.src_path)
    /\ total' = total + 1
    /\ failed' = failed + 1
    /\ idx' = idx + 1
    /\ log' = Logged("missing_source")
    /\ UNCHANGED <<entries, pc, success, exitStatus, fs, dirs, ran, runs, prev>>
    /\ UNCHANGED flagVars

\* Compile behind an incremental gate: an artifact at least as new as its
\* source is not rebuilt.
CompileIncremental ==
    /\ InLoop
    /\ Cur.passes
    /\ path_exists(Cur.src_path)
    /\ total' = total + 1
    /\ dirs' = dirs \cup { parent(Cur.bc_path) }
    /\ IF artifact_fresh(Cur)
         THEN /\ log' = Logged("up_to_date")
              /\ UNCHANGED <<ran, success, failed, fs>>
         ELSE /\ ran' = Append(ran, [cmd |-> Cur.cmd, cwd |-> entries[idx].directory])
              /\ \E outcome \in RunOutcomes :
                   /\ log' = Logged(outcome)
                   /\ IF outcome = "success"
                        THEN /\ success' = success + 1
                             /\ failed' = failed
                             /\ fs' = [fs EXCEPT ![Cur.bc_path] =
                                          [exists |-> TRUE, mtime |-> runs + 1]]
                        ELSE /\ failed' = failed + 1
                             /\ success' = success
                             /\ fs' = fs
    /\ idx' = idx + 1
    /\ UNCHANGED <<entries, pc, exitStatus, runs, prev>>
    /\ UNCHANGED flagVars

\* Compile whose TimeoutExpired handler forgets failed += 1.
CompileTimeoutUncounted ==
    /\ InLoop
    /\ Cur.passes
    /\ path_exists(Cur.src_path)
    /\ total' = total + 1
    /\ dirs' = dirs \cup { parent(Cur.bc_path) }
    /\ ran' = Append(ran, [cmd |-> Cur.cmd, cwd |-> entries[idx].directory])
    /\ \E outcome \in RunOutcomes :
         /\ log' = Logged(outcome)
         /\ IF outcome = "success"
              THEN /\ success' = success + 1
                   /\ failed' = failed
                   /\ fs' = [fs EXCEPT ![Cur.bc_path] = [exists |-> TRUE, mtime |-> runs + 1]]
              ELSE /\ failed' = IF outcome = "timeout" THEN failed ELSE failed + 1
                   /\ success' = success
                   /\ fs' = fs
    /\ idx' = idx + 1
    /\ UNCHANGED <<entries, pc, exitStatus, runs, prev>>
    /\ UNCHANGED flagVars

\* total += 1, the source exists: mkdir of the artifact's directory, then the
\* compiler runs; a successful compiler writes the artifact.
Compile ==
    /\ InLoop
    /\ Cur.passes
    /\ path_exists(Cur.src_path)
    /\ total' = total + 1
    /\ dirs' = dirs \cup { parent(Cur.bc_path) }
    /\ ran' = Append(ran, [cmd |-> Cur.cmd, cwd |-> entries[idx].directory])
    /\ \E outcome \in RunOutcomes :
         /\ log' = Logged(outcome)
         /\ IF outcome = "success"
              THEN /\ success' = success + 1
                   /\ failed' = failed
                   /\ fs' = [fs EXCEPT ![Cur.bc_path] = [exists |-> TRUE, mtime |-> runs + 1]]
              ELSE /\ failed' = failed + 1
                   /\ success' = success
                   /\ fs' = fs
    /\ idx' = idx + 1
    /\ UNCHANGED <<entries, pc, exitStatus, runs, prev>>
    /\ UNCHANGED flagVars

\* MainExit comparing failures with successes.
MainExitFailedExceeds ==
    /\ pc = "loop"
    /\ idx > Len(entries)
    /\ pc' = "done"
    /\ exitStatus' = IF failed > success THEN 1 ELSE 0
    /\ UNCHANGED <<entries, idx, total, success, failed, fs, dirs, ran, log, runs, prev>>
    /\ UNCHANGED flagVars

\* The loop is over: compile_directly returns its counters and main returns
\* the exit status.
MainExit ==
    /\ pc = "loop"
    /\ idx > Len(entries)
    /\ pc' = "done"
    /\ exitStatus' = IF success > 0 THEN 0 ELSE 1
    /\ UNCHANGED <<entries, idx, total, success, failed, fs, dirs, ran, log, runs, prev>>
    /\ UNCHANGED flagVars

\* The tool is started again on the same database and file system.
Rerun ==
    /\ pc = "done"
    /\ runs < MaxRuns
    /\ runs' = runs + 1
    /\ prev' = [success |-> success, failed |-> failed, invocations |-> Len(ran)]
    /\ idx' = 1
    /\ pc' = "loop"
    /\ total' = 0 /\ success' = 0 /\ failed' = 0
    /\ exitStatus' = -1
    /\ dirs' = {}
    /\ ran' = <<>>
    /\ log' = <<>>
    /\ UNCHANGED <<entries, fs>>
    /\ UNCHANGED flagVars

Next ==
    \/ TokenizeError
    \/ SkipEntry
    \/ MissingSource
    \/ Compile
    \/ MainExit
    \/ Rerun

Spec == Init /\ [][Next]_vars

----------------------------------------------------------------------------
(* Properties of the flag filter                                           *)

Count(xs, P(_)) == Cardinality({ j \in 1..Len(xs) : P(xs[j]) })

IsOptLevelToken(t) == StartsWith(t, "-O")

IsDebugToken(t) == StartsWith(t, "-g")

\* Position j of an output list holds the value of a keep-pair flag, not a flag.
RECURSIVE IsValuePos(_, _)
IsValuePos(out, j) ==
    /\ j > 1
    /\ out[j - 1] \in KEEP_PAIR
    /\ ~IsValuePos(out, j - 1)

\* Python index of the first optimization-level flag after index 0, or -1.
FirstOptIndex(a_args) ==
    LET hits == { k \in 1..(Len(a_args) - 1) : IsOptLevelToken(At(a_args, k)) }
    IN IF hits = {} THEN -1 ELSE CHOOSE k \in hits : \A h \in hits : k <= h

\* C1: every keep-pair flag emitted by filter_flags_for_analysis is
\* immediately followed, in the output, by the value token that followed an
\* occurrence of that flag in args; a keep-pair flag is never emitted alone,
\* also when it is the last token of args.
C1_KeepPairNeverSplit ==
    fpc # "ready" =>
      \A j \in 1..Len(result) :
        (result[j] \in KEEP_PAIR /\ ~IsValuePos(result, j)) =>
          /\ j < Len(result)
          /\ \E k \in 1..(Len(args) - 2) :
               At(args, k) = result[j] /\ At(args, k + 1) = result[j + 1]

\* C2: no token of the list returned by filter_flags_for_analysis satisfies
\* is_flag_to_drop, at any position, positions after a keep-pair flag included.
C2_NoInstrumentationToken ==
    fpc # "ready" => \A j \in 1..Len(result) : ~is_flag_to_drop(result[j])

\* C3: the list returned by filter_flags_for_analysis holds at most one
\* optimization-level token (-O<level>) and at most one debug-info token
\* (a token starting with -g).
C3_AtMostOneOptAndDebug ==
    fpc # "ready" =>
      /\ Count(result, IsOptLevelToken) <= 1
      /\ Count(result, IsDebugToken) <= 1

\* C4: idempotence: filtering [compiler] + F, where F is the list returned for
\* args, returns F again (same tokens, same order).
C4_Idempotent ==
    fpc = "refiltered" => result2 = result

\* C5: when args holds an optimization-level flag after index 0, the returned
\* list holds OPTIMIZATION exactly once, at the scan position of the first
\* optimization-level flag, and holds no other optimization-level token.
C5_OptimizationExactlyOnce ==
    (fpc # "ready" /\ FirstOptIndex(args) # -1) =>
      LET before == filter_scan(SubSeq(args, 1, FirstOptIndex(args)), 1, <<>>)
      IN /\ Count(result, LAMBDA t : t = OPTIMIZATION) = 1
         /\ Count(result, IsOptLevelToken) = 1
         /\ Len(result) > Len(before)
         /\ SubSeq(result, 1, Len(before)) = before
         /\ result[Len(before) + 1] = OPTIMIZATION

----------------------------------------------------------------------------
(* Properties of the replay loop                                           *)

Handled == 1..Len(log)

Invoked(k) == log[k].outcome \in RunOutcomes

\* The resolved source of a record, as the specification words it: the last
\* token ending in .c, resolved against the working directory when relative.
ResolvedSource(entry) ==
    LET toks == norm_args(entry).toks
        last == CHOOSE j \in 1..Len(toks) :
                  /\ EndsWith(toks[j], ".c")
                  /\ \A h \in (j + 1)..Len(toks) : ~EndsWith(toks[h], ".c")
    IN IF StartsWith(toks[last], "/") THEN toks[last]
       ELSE entry.directory \o "/" \o toks[last]

\* Per record: whether it is an in-scope single-file compile, and if so its
\* resolved source.
InScope ==
    [e \in EntryTemplates |->
       norm_args(e).ok /\ passes_classification(norm_args(e).toks)]

ResolvedSources ==
    [e \in EntryTemplates |-> IF InScope[e] THEN ResolvedSource(e) ELSE ""]

C7_IncrementalSkip ==
    /\ \A k \in Handled : log[k].fresh => ~Invoked(k)
    /\ (runs >= 2 /\ prev.failed = 0) => Len(ran) = 0

\* C7 as amended: there is no incremental gate.  Every in-scope record whose
\* source exists is compiled (one subprocess invocation) in every run, also
\* when its artifact is at least as new as its source; no record is counted
\* as up to date, and a second run invokes the compiler as often as the first.
C7_AlwaysRecompiles ==
    /\ \A k \in Handled :
         (InScope[entries[k]] /\ path_exists(ResolvedSources[entries[k]]))
           => Invoked(k)
    /\ Len(ran) = Cardinality({ k \in Handled : Invoked(k) })
    /\ (pc = "done" /\ runs >= 2) => Len(ran) = prev.invocations

C7_Witness ==
    /\ runs = 2
    /\ prev.failed = 0 /\ prev.success > 0
    /\ \E k \in Handled : log[k].fresh /\ log[k].outcome = "success"

\* C8: a per-record error (neither argument list nor command, a command that
\* cannot be tokenized, a missing source, a non-zero exit, a timeout) never
\* aborts the pass.
C8_ErrorsAreLocal ==
    pc = "crashed" =>
      log[Len(log)].outcome \notin
        { "skipped", "tokenize_error", "missing_source", "compile_failed", "timeout" }

\* C9: an in-scope record whose resolved source does not exist is counted as
\* exactly one failure, runs no subprocess, creates no directory and no
\* artifact, and the loop goes on to the next record.
C9_MissingSourceIsOneFailure ==
    [][ (InLoop /\ InScope[entries[idx]]
           /\ ~path_exists(ResolvedSources[entries[idx]]))
        => /\ total' = total + 1
           /\ failed' = failed + 1
           /\ success' = success
           /\ ran' = ran
           /\ dirs' = dirs
           /\ fs' = fs
           /\ idx' = idx + 1
           /\ pc' = "loop" ]_vars

C9_Witness ==
    /\ Len(log) = 2
    /\ log[1].outcome = "missing_source"
    /\ log[2].outcome = "success"
    /\ total = 2 /\ failed = 1 /\ Len(ran) = 1

\* C10: total = success + failed after each record; a record that passes
\* classification adds one to total and one to exactly one of success and
\* failed, every other record changes no counter.
C10_CounterInvariant ==
    /\ [](total = success + failed)
    /\ [][ InLoop =>
             IF InScope[entries[idx]]
               THEN /\ total' = total + 1
                    /\ \/ success' = success + 1 /\ failed' = failed
                       \/ success' = success /\ failed' = failed + 1
               ELSE UNCHANGED <<total, success, failed>> ]_vars

C10_Witness ==
    /\ pc = "done"
    /\ Len(log) = 3
    /\ log[1].outcome = "timeout"
    /\ log[2].outcome = "skipped"
    /\ log[3].outcome = "success"
    /\ total = 2 /\ success = 1 /\ failed = 1

====
